---------------------------- MODULE Spec2Model ----------------------------
(***************************************************************************)
(* Model of stem/client/cell.py: the ORPort cell classes, their lookup     *)
(* (Cell.by_name, Cell.by_value) and their packing (Cell._pack,            *)
(* CircuitCell._pack, VersionsCell.pack); and of stem/directory.py: the    *)
(* section poppers, _directory_entries and                                 *)
(* _fallback_directory_differences.                                        *)
(*                                                                         *)
(* A byte string is a sequence of integers in 0..255.  Python integers are *)
(* unbounded while the integers of the model checker are 32 bit, so an     *)
(* integer handed to struct.pack is kept as two limbs, hi * 65536 + lo     *)
(* with lo in 0..65535 (Wide); 0x80000000 is [hi |-> 32768, lo |-> 0].     *)
(***************************************************************************)
EXTENDS Integers, Sequences, FiniteSets, TLC

VARIABLES
  pc,            \* "ready": the call is about to be made; "done": it has ended
  method,        \* "_pack" (cls._pack(...)) or "pack" (VersionsCell.pack(...))
  cls,           \* the class the method is called on
  link_version,  \* argument of _pack
  payload,       \* argument of _pack
  circ_id,       \* argument of _pack (a Wide, or None)
  versions,      \* argument of VersionsCell.pack
  result,        \* what the call returned or raised
  name,          \* argument of Cell.by_name
  value,         \* argument of Cell.by_value
  found,         \* the class a lookup returned
  unpacked,      \* what unpacking the packed cell gave
  previous_directories,  \* argument of _fallback_directory_differences
  new_directories,       \* argument of _fallback_directory_differences
  description,           \* its lines list
  pop_section_func,      \* argument of _directory_entries
  lines,                 \* argument of _directory_entries: the lines left
  before,                \* lines as they were before the last pop_section_func call
  next_section,          \* _directory_entries: next_section
  yielded                \* the sections _directory_entries has yielded so far

\* the arguments of the calls on the cell classes
cellArgs == <<method, cls, link_version, payload, circ_id, versions, name, value>>

cellVars == <<cellArgs, result, found, unpacked>>

dirVars ==
  <<previous_directories, new_directories, description, pop_section_func, lines,
    before, next_section, yielded>>

vars == <<pc, cellVars, dirVars>>

---------------------------------------------------------------------------
(* Bounds of the model.                                                    *)

MaxLinkVersion == 5     \* link versions 1..MaxLinkVersion
MaxShortPayload == 2    \* short payloads have 0..MaxShortPayload bytes
MaxSlack == 1           \* payloads within MaxSlack bytes of a fixed cell's capacity
MaxSeed == 1            \* payload contents: byte i is (seed + i) % 256
MaxCircIdLo == 1        \* low limbs 0..MaxCircIdLo of the circuit ids tried
MaxVersions == 3        \* version lists of up to MaxVersions entries
MaxVersionValue == 5    \* versions 1..MaxVersionValue (and the ends of the 2 byte range)

---------------------------------------------------------------------------
(* Integers and the field codec (stem.client.Pack, stem.client.ZERO).      *)

Wide(n) == [none |-> FALSE, hi |-> n \div 65536, lo |-> n % 65536]

WideOf(h, l) == [none |-> FALSE, hi |-> h, lo |-> l]

None == [none |-> TRUE, hi |-> 0, lo |-> 0]

ZERO == 0

Pack == [CHAR |-> "!B", SHORT |-> "!H", LONG |-> "!L"]

\* struct.pack(fmt, v) for the unsigned big-endian formats: the bytes, or
\* ok = FALSE where struct.pack raises struct.error (v is None or does not
\* fit the field).
struct_pack(fmt, v) ==
  CASE fmt = "!B" ->
         IF ~v.none /\ v.hi = 0 /\ v.lo <= 255
         THEN [ok |-> TRUE, bytes |-> <<v.lo>>]
         ELSE [ok |-> FALSE, bytes |-> <<>>]
    [] fmt = "!H" ->
         IF ~v.none /\ v.hi = 0
         THEN [ok |-> TRUE, bytes |-> <<v.lo \div 256, v.lo % 256>>]
         ELSE [ok |-> FALSE, bytes |-> <<>>]
    [] fmt = "!L" ->
         IF ~v.none /\ v.hi >= 0 /\ v.hi <= 65535
         THEN [ok |-> TRUE,
               bytes |-> <<v.hi \div 256, v.hi % 256, v.lo \div 256, v.lo % 256>>]
         ELSE [ok |-> FALSE, bytes |-> <<>>]

\* ZERO * n
Zeros(n) == [i \in 1..n |-> ZERO]

---------------------------------------------------------------------------
(* The classes of the module and their attributes.                         *)

\* the class tree as the overview of the module draws it: Created2Cell
\* among the circuit cells
Bases_Docstring ==
  [Cell |-> "namedtuple", CircuitCell |-> "Cell",
   PaddingCell |-> "Cell", CreateCell |-> "CircuitCell",
   CreatedCell |-> "CircuitCell", RelayCell |-> "CircuitCell",
   DestroyCell |-> "CircuitCell", CreateFastCell |-> "CircuitCell",
   CreatedFastCell |-> "CircuitCell", VersionsCell |-> "Cell",
   NetinfoCell |-> "Cell", RelayEarlyCell |-> "CircuitCell",
   Create2Cell |-> "CircuitCell", Created2Cell |-> "CircuitCell",
   PaddingNegotiateCell |-> "Cell", VPaddingCell |-> "Cell",
   CertsCell |-> "Cell", AuthChallengeCell |-> "Cell",
   AuthenticateCell |-> "Cell", AuthorizeCell |-> "Cell"]

\* class -> its base class
Bases ==
  [Cell |-> "namedtuple", CircuitCell |-> "Cell",
   PaddingCell |-> "Cell", CreateCell |-> "CircuitCell",
   CreatedCell |-> "CircuitCell", RelayCell |-> "CircuitCell",
   DestroyCell |-> "CircuitCell", CreateFastCell |-> "CircuitCell",
   CreatedFastCell |-> "CircuitCell", VersionsCell |-> "Cell",
   NetinfoCell |-> "Cell", RelayEarlyCell |-> "CircuitCell",
   Create2Cell |-> "CircuitCell", Created2Cell |-> "Cell",
   PaddingNegotiateCell |-> "Cell", VPaddingCell |-> "Cell",
   CertsCell |-> "Cell", AuthChallengeCell |-> "Cell",
   AuthenticateCell |-> "Cell", AuthorizeCell |-> "Cell"]

Classes == DOMAIN Bases

\* the attributes a class body sets itself; Cell's are inherited by the rest
OwnAttrs ==
  [Cell |-> [NAME |-> "UNKNOWN", VALUE |-> -1, IS_FIXED_SIZE |-> FALSE],
   PaddingCell |-> [NAME |-> "PADDING", VALUE |-> 0, IS_FIXED_SIZE |-> TRUE],
   CreateCell |-> [NAME |-> "CREATE", VALUE |-> 1, IS_FIXED_SIZE |-> TRUE],
   CreatedCell |-> [NAME |-> "CREATED", VALUE |-> 2, IS_FIXED_SIZE |-> TRUE],
   RelayCell |-> [NAME |-> "RELAY", VALUE |-> 3, IS_FIXED_SIZE |-> TRUE],
   DestroyCell |-> [NAME |-> "DESTROY", VALUE |-> 4, IS_FIXED_SIZE |-> TRUE],
   CreateFastCell |-> [NAME |-> "CREATE_FAST", VALUE |-> 5, IS_FIXED_SIZE |-> TRUE],
   CreatedFastCell |-> [NAME |-> "CREATED_FAST", VALUE |-> 6, IS_FIXED_SIZE |-> TRUE],
   VersionsCell |-> [NAME |-> "VERSIONS", VALUE |-> 7, IS_FIXED_SIZE |-> FALSE],
   NetinfoCell |-> [NAME |-> "NETINFO", VALUE |-> 8, IS_FIXED_SIZE |-> TRUE],
   RelayEarlyCell |-> [NAME |-> "RELAY_EARLY", VALUE |-> 9, IS_FIXED_SIZE |-> TRUE],
   Create2Cell |-> [NAME |-> "CREATE2", VALUE |-> 10, IS_FIXED_SIZE |-> TRUE],
   Created2Cell |-> [NAME |-> "CREATED2", VALUE |-> 11, IS_FIXED_SIZE |-> TRUE],
   PaddingNegotiateCell |->
     [NAME |-> "PADDING_NEGOTIATE", VALUE |-> 12, IS_FIXED_SIZE |-> TRUE],
   VPaddingCell |-> [NAME |-> "VPADDING", VALUE |-> 128, IS_FIXED_SIZE |-> FALSE],
   CertsCell |-> [NAME |-> "CERTS", VALUE |-> 129, IS_FIXED_SIZE |-> FALSE],
   AuthChallengeCell |->
     [NAME |-> "AUTH_CHALLENGE", VALUE |-> 130, IS_FIXED_SIZE |-> FALSE],
   AuthenticateCell |->
     [NAME |-> "AUTHENTICATE", VALUE |-> 131, IS_FIXED_SIZE |-> FALSE],
   AuthorizeCell |-> [NAME |-> "AUTHORIZE", VALUE |-> 132, IS_FIXED_SIZE |-> FALSE]]

\* attribute lookup along the base classes (CircuitCell sets none of its own)
RECURSIVE Attrs(_)
Attrs(c) == IF c \in DOMAIN OwnAttrs THEN OwnAttrs[c] ELSE Attrs(Bases[c])

NAME(c) == Attrs(c).NAME

VALUE(c) == Attrs(c).VALUE

IS_FIXED_SIZE(c) == Attrs(c).IS_FIXED_SIZE

\* issubclass(c, CircuitCell): c is CircuitCell or derives from it
RECURSIVE IsCircuitCell(_)
IsCircuitCell(c) ==
  \/ c = "CircuitCell"
  \/ c \in Classes /\ IsCircuitCell(Bases[c])

\* the characters of the class names' NAME strings
Chars ==
  [UNKNOWN |-> <<"U", "N", "K", "N", "O", "W", "N">>,
   PADDING |-> <<"P", "A", "D", "D", "I", "N", "G">>,
   CREATE |-> <<"C", "R", "E", "A", "T", "E">>,
   CREATED |-> <<"C", "R", "E", "A", "T", "E", "D">>,
   RELAY |-> <<"R", "E", "L", "A", "Y">>,
   DESTROY |-> <<"D", "E", "S", "T", "R", "O", "Y">>,
   CREATE_FAST |-> <<"C", "R", "E", "A", "T", "E", "_", "F", "A", "S", "T">>,
   CREATED_FAST |-> <<"C", "R", "E", "A", "T", "E", "D", "_", "F", "A", "S", "T">>,
   VERSIONS |-> <<"V", "E", "R", "S", "I", "O", "N", "S">>,
   NETINFO |-> <<"N", "E", "T", "I", "N", "F", "O">>,
   RELAY_EARLY |-> <<"R", "E", "L", "A", "Y", "_", "E", "A", "R", "L", "Y">>,
   CREATE2 |-> <<"C", "R", "E", "A", "T", "E", "2">>,
   CREATED2 |-> <<"C", "R", "E", "A", "T", "E", "D", "2">>,
   PADDING_NEGOTIATE |->
     <<"P", "A", "D", "D", "I", "N", "G", "_", "N", "E", "G", "O", "T", "I", "A", "T", "E">>,
   VPADDING |-> <<"V", "P", "A", "D", "D", "I", "N", "G">>,
   CERTS |-> <<"C", "E", "R", "T", "S">>,
   AUTH_CHALLENGE |->
     <<"A", "U", "T", "H", "_", "C", "H", "A", "L", "L", "E", "N", "G", "E">>,
   AUTHENTICATE |-> <<"A", "U", "T", "H", "E", "N", "T", "I", "C", "A", "T", "E">>,
   AUTHORIZE |-> <<"A", "U", "T", "H", "O", "R", "I", "Z", "E">>]

\* str.startswith
startswith(s, prefix) ==
  /\ Len(Chars[prefix]) <= Len(Chars[s])
  /\ SubSeq(Chars[s], 1, Len(Chars[prefix])) = Chars[prefix]

---------------------------------------------------------------------------
(* What a call returns or raises.                                          *)

NoResult ==
  [status |-> "none", exc |-> "", msg |-> "", name |-> "", cell |-> <<>>]

Returned(bytes) ==
  [status |-> "returned", exc |-> "", msg |-> "", name |-> "", cell |-> bytes]

Raised(e, m, n) ==
  [status |-> "raised", exc |-> e, msg |-> m, name |-> n, cell |-> <<>>]

---------------------------------------------------------------------------
(* Cell._pack, with cls the class it is bound to.  A struct.pack result     *)
(* with ok = FALSE stands for the struct.error raised at that line.         *)

\* line 111 with the version test off by one: 4 bytes from link version 3 on
packed_circ_id_FromV3(lv, cid) ==
  struct_pack(IF lv >= 3 THEN Pack.LONG ELSE Pack.SHORT, cid)

\* line 111
packed_circ_id(lv, cid) ==
  struct_pack(IF lv > 3 THEN Pack.LONG ELSE Pack.SHORT, cid)

\* line 112
packed_command(c) == struct_pack(Pack.CHAR, Wide(VALUE(c)))

\* line 113 without the IS_FIXED_SIZE test: the length is always emitted
packed_size_Always(c, data) == struct_pack(Pack.SHORT, Wide(Len(data)))

\* line 113 with the IS_FIXED_SIZE test inverted
packed_size_Inverted(c, data) ==
  IF ~IS_FIXED_SIZE(c)
  THEN [ok |-> TRUE, bytes |-> <<>>]
  ELSE struct_pack(Pack.SHORT, Wide(Len(data)))

\* line 113
packed_size(c, data) ==
  IF IS_FIXED_SIZE(c)
  THEN [ok |-> TRUE, bytes |-> <<>>]
  ELSE struct_pack(Pack.SHORT, Wide(Len(data)))

\* line 119
\* one length for every link version
fixed_cell_len_NoSwitch(lv) == 512

fixed_cell_len(lv) == IF lv > 3 THEN 514 ELSE 512

Cell_pack(c, lv, data, cid) ==
  LET circ == packed_circ_id(lv, cid)
      command == packed_command(c)
      size == packed_size(c, data)
      cell == circ.bytes \o command.bytes \o size.bytes \o data
  IN IF ~circ.ok \/ ~command.ok \/ ~size.ok
     THEN Raised("struct.error", "", "")
     ELSE IF IS_FIXED_SIZE(c)
          THEN IF Len(cell) > fixed_cell_len(lv)
               THEN Raised("ValueError",
                           "Payload of %s is too large (%i bytes), must be less than %i",
                           NAME(c))
               ELSE Returned(cell \o Zeros(fixed_cell_len(lv) - Len(cell)))
          ELSE Returned(cell)

(* CircuitCell._pack.  Its last line calls Cell._pack on the class Cell, so *)
(* that call is bound to Cell, not to cls.                                  *)

CircuitCell_pack(c, lv, data, cid) ==
  IF cid.none /\ startswith(NAME(c), "CREATE")
  THEN Cell_pack("Cell", lv, data, IF lv > 3 THEN WideOf(32768, 0) ELSE Wide(1))
  ELSE Raised("ValueError", "%s cells require a circ_id", NAME(c))

\* cls._pack: the method the class's base classes resolve it to
ResolvedPack(c, lv, data, cid) ==
  IF IsCircuitCell(c)
  THEN CircuitCell_pack(c, lv, data, cid)
  ELSE Cell_pack(c, lv, data, cid)

\* b''.join(pieces) for byte strings that are all w bytes long
Join(pieces, w) ==
  [i \in 1..(w * Len(pieces)) |-> pieces[((i - 1) \div w) + 1][((i - 1) % w) + 1]]

\* line 222 packing sorted(versions) instead of versions
VersionsPayload_Sorted(vs) ==
  LET sorted == SortSeq(vs, LAMBDA a, b : a < b)
      packed == [k \in 1..Len(vs) |-> struct_pack(Pack.SHORT, Wide(sorted[k]))]
  IN IF \E k \in 1..Len(vs) : ~packed[k].ok
     THEN [ok |-> FALSE, bytes |-> <<>>]
     ELSE [ok |-> TRUE, bytes |-> Join([k \in 1..Len(vs) |-> packed[k].bytes], 2)]

\* b''.join([struct.pack(Pack.SHORT, v) for v in versions]); ok = FALSE when
\* one of the struct.pack calls raises
VersionsPayload(vs) ==
  LET packed == [k \in 1..Len(vs) |-> struct_pack(Pack.SHORT, Wide(vs[k]))]
  IN IF \E k \in 1..Len(vs) : ~packed[k].ok
     THEN [ok |-> FALSE, bytes |-> <<>>]
     ELSE [ok |-> TRUE, bytes |-> Join([k \in 1..Len(vs) |-> packed[k].bytes], 2)]

\* VersionsCell.pack; cls._pack(3, payload) leaves circ_id at its default, 0
VersionsCell_pack(c, vs) ==
  LET p == VersionsPayload(vs)
  IN IF ~p.ok THEN Raised("struct.error", "", "")
     ELSE ResolvedPack(c, 3, p.bytes, Wide(0))

---------------------------------------------------------------------------
(* Cell.by_name and Cell.by_value.  inspect.getmembers gives the members of *)
(* the module sorted by name; the members that are no cell class (Pack,     *)
(* UNDEFINED, ZERO, the imported modules, the dunder names) have no NAME or *)
(* VALUE, so getattr gives UNDEFINED for them, which no key tried equals.   *)

Members ==
  <<"AuthChallengeCell", "AuthenticateCell", "AuthorizeCell", "Cell", "CertsCell",
    "CircuitCell", "Create2Cell", "CreateCell", "CreateFastCell", "Created2Cell",
    "CreatedCell", "CreatedFastCell", "DestroyCell", "NetinfoCell", "PaddingCell",
    "PaddingNegotiateCell", "RelayCell", "RelayEarlyCell", "VPaddingCell",
    "VersionsCell">>

\* the first member the loop's test holds for, or ok = FALSE when the loop
\* falls through to the raise
FirstMember(hits) ==
  IF hits = {}
  THEN [ok |-> FALSE, cls |-> ""]
  ELSE [ok |-> TRUE, cls |-> Members[CHOOSE i \in hits : \A j \in hits : i <= j]]

by_name(n) == FirstMember({i \in 1..Len(Members) : n = NAME(Members[i])})

by_value(v) == FirstMember({i \in 1..Len(Members) : v = VALUE(Members[i])})

---------------------------------------------------------------------------
(* unpack.  cell.py names it in its overview and defines none; this is the  *)
(* algorithm of the specification (Generic Cell Framer, unpack), resolving  *)
(* the command with Cell.by_value.                                          *)

NoCell ==
  [ok |-> FALSE, err |-> "", command |-> "", has_circ_id |-> FALSE,
   circuit_id |-> None, payload |-> <<>>, consumed |-> 0]

UnpackError(e) == [NoCell EXCEPT !.err = e]

Cell_unpack(lv, buf) ==
  LET w == IF lv <= 3 THEN 2 ELSE 4
      fixed_total == IF lv <= 3 THEN 512 ELSE 514
  IN IF Len(buf) < w + 1
     THEN UnpackError("TruncatedCellError")
     ELSE
       LET id == IF w = 2
                 THEN WideOf(0, buf[1] * 256 + buf[2])
                 ELSE WideOf(buf[1] * 256 + buf[2], buf[3] * 256 + buf[4])
           entry == by_value(buf[w + 1])
       IN IF ~entry.ok
          THEN UnpackError("UnknownCommandError")
          ELSE IF IS_FIXED_SIZE(entry.cls)
               THEN IF Len(buf) < fixed_total
                    THEN UnpackError("TruncatedCellError")
                    ELSE [ok |-> TRUE, err |-> "", command |-> NAME(entry.cls),
                          has_circ_id |-> IsCircuitCell(entry.cls),
                          circuit_id |-> IF IsCircuitCell(entry.cls) THEN id ELSE None,
                          payload |-> SubSeq(buf, w + 2, fixed_total),
                          consumed |-> fixed_total]
               ELSE IF Len(buf) < w + 3
                    THEN UnpackError("TruncatedCellError")
                    ELSE LET declared_length == buf[w + 2] * 256 + buf[w + 3]
                         IN IF Len(buf) < w + 3 + declared_length
                            THEN UnpackError("TruncatedCellError")
                            ELSE [ok |-> TRUE, err |-> "", command |-> NAME(entry.cls),
                                  has_circ_id |-> IsCircuitCell(entry.cls),
                                  circuit_id |->
                                    IF IsCircuitCell(entry.cls) THEN id ELSE None,
                                  payload |-> SubSeq(buf, w + 4, w + 3 + declared_length),
                                  consumed |-> w + 3 + declared_length]

---------------------------------------------------------------------------
(* The calls tried: the arguments are drawn in Init, one action makes the   *)
(* call.                                                                    *)

PayloadOf(n, seed) == [i \in 1..n |-> (seed + i) % 256]

\* short payloads, and payloads around the capacity of a fixed-size cell
\* (512 - 3 = 514 - 5 = 509 bytes)
PayloadLens == (0..MaxShortPayload) \cup ((509 - MaxSlack)..(509 + MaxSlack))

Payloads == {PayloadOf(n, seed) : n \in PayloadLens, seed \in 0..MaxSeed}

\* payloads around the end of the 2 byte length field's range
LongPayloads == {PayloadOf(n, 0) : n \in (65536 - MaxSlack)..(65535 + MaxSlack)}

\* circuit ids: None, and ids around 0, 0x80000000 and 0x100000000
CircIds ==
  {None} \cup {WideOf(h, l) : h \in {0, 32768, 65536},
                              l \in (0..MaxCircIdLo) \cup {65535}}

VersionValues == (1..MaxVersionValue) \cup {258, 65535, 65536}

VersionLists ==
  UNION {[1..n -> VersionValues] : n \in 0..MaxVersions}

\* version lists around the longest one whose payload length fits 2 bytes
LongVersionLists == {[i \in 1..n |-> 3] : n \in (32768 - MaxSlack)..(32767 + MaxSlack)}

\* the names looked up: every NAME of the module, and two that are none
LookupNames == DOMAIN Chars \cup {"", "CELL"}

\* the values looked up: the byte values and their neighbours
LookupValues == -2..256

\* no call on the cell classes is made
CellIdle ==
  /\ method = "none" /\ cls = "Cell" /\ link_version = 0 /\ payload = <<>>
  /\ circ_id = None /\ versions = <<>> /\ name = "" /\ value = 0
  /\ result = NoResult /\ found = "" /\ unpacked = NoCell

\* no call on the directory functions is made
DirIdle ==
  /\ previous_directories = <<>> /\ new_directories = <<>> /\ description = <<>>
  /\ pop_section_func = "none" /\ lines = <<>> /\ before = <<>>
  /\ next_section = <<>> /\ yielded = <<>>

Init ==
  /\ pc = "ready"
  /\ result = NoResult
  /\ found = ""
  /\ unpacked = NoCell
  /\ DirIdle
  /\ \/ /\ method = "_pack"
        /\ cls \in Classes
        /\ link_version \in 1..MaxLinkVersion
        /\ payload \in Payloads
        /\ circ_id \in CircIds
        /\ versions = <<>> /\ name = "" /\ value = 0
     \/ /\ method = "_pack"
        /\ cls \in Classes
        /\ link_version \in {3, 4}
        /\ payload \in LongPayloads
        /\ circ_id = Wide(0)
        /\ versions = <<>> /\ name = "" /\ value = 0
     \/ /\ method = "pack"
        /\ cls = "VersionsCell"
        /\ link_version = 0
        /\ payload = <<>>
        /\ circ_id = None
        /\ versions \in VersionLists \cup LongVersionLists
        /\ name = "" /\ value = 0
     \/ \* Cell._pack run with cls bound to a CircuitCell class
        /\ method = "Cell._pack"
        /\ cls \in {c \in Classes : IsCircuitCell(c)}
        /\ link_version \in 1..MaxLinkVersion
        /\ payload \in Payloads
        /\ circ_id \in CircIds
        /\ versions = <<>> /\ name = "" /\ value = 0
     \/ /\ method = "by_name"
        /\ name \in LookupNames
        /\ cls = "Cell" /\ link_version = 0 /\ payload = <<>> /\ circ_id = None
        /\ versions = <<>> /\ value = 0
     \/ /\ method = "by_value"
        /\ value \in LookupValues
        /\ cls = "Cell" /\ link_version = 0 /\ payload = <<>> /\ circ_id = None
        /\ versions = <<>> /\ name = ""

\* cls._pack(link_version, payload, circ_id) on a class that is no CircuitCell
CallCellPack ==
  /\ pc = "ready" /\ method = "_pack" /\ ~IsCircuitCell(cls)
  /\ result' = Cell_pack(cls, link_version, payload, circ_id)
  /\ pc' = "done"
  /\ UNCHANGED <<cellArgs, found, unpacked, dirVars>>

\* cls._pack(link_version, payload, circ_id) on a CircuitCell
CallCircuitCellPack ==
  /\ pc = "ready" /\ method = "_pack" /\ IsCircuitCell(cls)
  /\ result' = CircuitCell_pack(cls, link_version, payload, circ_id)
  /\ pc' = "done"
  /\ UNCHANGED <<cellArgs, found, unpacked, dirVars>>

\* the body of Cell._pack with cls a CircuitCell class (what
\* Cell._pack.__func__(cls, link_version, payload, circ_id) runs)
CallCellPackDirect ==
  /\ pc = "ready" /\ method = "Cell._pack"
  /\ result' = Cell_pack(cls, link_version, payload, circ_id)
  /\ pc' = "done"
  /\ UNCHANGED <<cellArgs, found, unpacked, dirVars>>

\* VersionsCell.pack(versions)
CallVersionsPack ==
  /\ pc = "ready" /\ method = "pack"
  /\ result' = VersionsCell_pack(cls, versions)
  /\ pc' = "done"
  /\ UNCHANGED <<cellArgs, found, unpacked, dirVars>>

\* Cell.by_name(name)
CallByName ==
  /\ pc = "ready" /\ method = "by_name"
  /\ LET m == by_name(name)
     IN /\ found' = m.cls
        /\ result' = IF m.ok THEN Returned(<<>>)
                     ELSE Raised("ValueError", "'%s' isn't a valid cell type", "")
  /\ pc' = "done"
  /\ UNCHANGED <<cellArgs, unpacked, dirVars>>

\* Cell.by_value(value)
CallByValue ==
  /\ pc = "ready" /\ method = "by_value"
  /\ LET m == by_value(value)
     IN /\ found' = m.cls
        /\ result' = IF m.ok THEN Returned(<<>>)
                     ELSE Raised("ValueError", "'%s' isn't a valid cell value", "")
  /\ pc' = "done"
  /\ UNCHANGED <<cellArgs, unpacked, dirVars>>

\* unpack(link_version, cell) of the cell that cls._pack or VersionsCell.pack
\* returned (VersionsCell.pack frames at link version 3)
CallUnpack ==
  /\ pc = "done" /\ method \in {"_pack", "pack"} /\ result.status = "returned"
  /\ unpacked' = Cell_unpack(IF method = "pack" THEN 3 ELSE link_version, result.cell)
  /\ pc' = "unpacked"
  /\ UNCHANGED <<cellArgs, result, found, dirVars>>

Next ==
  \/ CallCellPack
  \/ CallCircuitCellPack
  \/ CallCellPackDirect
  \/ CallVersionsPack
  \/ CallByName
  \/ CallByValue
  \/ CallUnpack

Spec == Init /\ [][Next]_vars

TypeOK ==
  /\ pc \in {"ready", "done", "unpacked"}
  /\ method \in {"_pack", "pack", "Cell._pack", "by_name", "by_value"}
  /\ cls \in Classes
  /\ result.status \in {"none", "returned", "raised"}
  /\ (pc = "ready") = (result.status = "none")
  /\ (pc = "unpacked") => (result.status = "returned" /\ unpacked # NoCell)

---------------------------------------------------------------------------
(* stem.directory: _fallback_directory_differences.  A Fallback is a record *)
(* of its attributes; None is 0 for dir_port (the constructor turns 0 into  *)
(* None) and the empty tuple for orport_v6 and header.                      *)

\* the most attributes by which a new directory differs from the previous one
MaxChanged == 2

\* the keys of the two mappings
Fingerprints ==
  {"0756B7CD4DFC8182BE23143FAC0642F515182CEB", "01A9258A46E97FF8B2CAC7910577862C14F2C524"}

\* the attributes a Fallback is built from
FallbackAttrs ==
  {"address", "or_port", "dir_port", "fingerprint", "nickname", "has_extrainfo",
   "orport_v6", "header"}

\* the Fallback of a fingerprint, with the attributes in changed set to
\* other values
Fallback(fp, changed) ==
  [address |-> IF "address" \in changed THEN "193.11.114.45" ELSE "193.11.114.43",
   or_port |-> IF "or_port" \in changed THEN 443 ELSE 9001,
   dir_port |-> IF "dir_port" \in changed THEN 0 ELSE 9030,
   fingerprint |-> IF "fingerprint" \in changed THEN "lower:" \o fp ELSE fp,
   nickname |-> IF "nickname" \in changed THEN "mdfnet2" ELSE "mdfnet1",
   has_extrainfo |-> "has_extrainfo" \in changed,
   orport_v6 |-> IF "orport_v6" \in changed THEN <<"2001:6b0:30:1000::99", 9050>>
                 ELSE <<>>,
   header |-> IF "header" \in changed THEN <<<<"version", "3.0.0">>>>
              ELSE <<<<"version", "2.0.0">>>>]

\* Directory.__hash__ and Fallback.__hash__: the attributes hashed
DirectoryHashAttrs ==
  {"address", "or_port", "dir_port", "fingerprint", "nickname", "orport_v6"}

FallbackHashAttrs == {"has_extrainfo", "header"} \cup DirectoryHashAttrs

\* previous_directory != new_directory: the hashes of the listed attributes
\* differ (a hash of equal values is equal, of different values different)
Fallback_ne(a, b) == \E attr \in FallbackHashAttrs : a[attr] # b[attr]

\* the attributes the Changed lines are written for, in the loop's order
ChangedAttrs == <<"address", "or_port", "dir_port", "fingerprint", "orport_v6", "header">>

Line(fmt, args) == [fmt |-> fmt, args |-> args]

AddedLines(directory) ==
  <<Line("* Added %s as a new fallback directory:", <<directory.fingerprint>>),
    Line("  address: %s", <<directory.address>>),
    Line("  or_port: %s", <<directory.or_port>>),
    Line("  dir_port: %s", <<directory.dir_port>>),
    Line("  nickname: %s", <<directory.nickname>>),
    Line("  has_extrainfo: %s", <<directory.has_extrainfo>>),
    Line("  orport_v6: %s",
         IF directory.orport_v6 # <<>> THEN <<"%s:%s", directory.orport_v6>>
         ELSE <<"[none]">>),
    Line("", <<>>)>>

RemovedLine(fp) == Line("* Removed %s as a fallback directory", <<fp>>)

RECURSIVE ChangedLines(_, _, _, _)
\* the lines of the loop over ChangedAttrs from its k-th attribute on
ChangedLines(fp, previous_directory, new_directory, k) ==
  IF k > Len(ChangedAttrs)
  THEN <<>>
  ELSE LET attr == ChangedAttrs[k]
           old_attr == previous_directory[attr]
           new_attr == new_directory[attr]
       IN (IF old_attr # new_attr
           THEN <<Line("* Changed the %s of %s from %s to %s",
                       <<attr, fp, old_attr, new_attr>>)>>
           ELSE <<>>)
          \o ChangedLines(fp, previous_directory, new_directory, k + 1)

RECURSIVE Concat(_)
\* lines += ..., for each element of seqs in turn
Concat(seqs) == IF seqs = <<>> THEN <<>> ELSE Head(seqs) \o Concat(Tail(seqs))

\* the orders a for loop can visit the elements of S in
Orders(S) ==
  {o \in [1..Cardinality(S) -> S] : \A i, j \in 1..Cardinality(S) : o[i] = o[j] => i = j}

\* the lines list at the return, the loops visiting added_fp, removed_fp and
\* new_directories in the orders given
fallback_directory_differences(previous, new, added_order, removed_order, new_order) ==
  LET added_fp == (DOMAIN new) \ (DOMAIN previous)
      removed_fp == (DOMAIN previous) \ (DOMAIN new)
  IN Concat([i \in 1..Len(added_order) |-> AddedLines(new[added_order[i]])])
     \o [i \in 1..Len(removed_order) |-> RemovedLine(removed_order[i])]
     \o Concat([i \in 1..Len(new_order) |->
                 LET fp == new_order[i]
                 IN IF fp \in added_fp \/ fp \in removed_fp
                    THEN <<>>
                    ELSE IF Fallback_ne(previous[fp], new[fp])
                         THEN ChangedLines(fp, previous[fp], new[fp], 1)
                         ELSE <<>>])

\* the sets of attributes changed
ChangeSets == {c \in SUBSET FallbackAttrs : Cardinality(c) <= MaxChanged}

PreviousMappings == {[fp \in D |-> Fallback(fp, {})] : D \in SUBSET Fingerprints}

NewMappings ==
  {[fp \in D |-> Fallback(fp, c[fp])] : D \in SUBSET Fingerprints,
                                        c \in [Fingerprints -> ChangeSets]}

\* no _directory_entries iteration is made
EntriesIdle ==
  /\ pop_section_func = "none" /\ lines = <<>> /\ before = <<>>
  /\ next_section = <<>> /\ yielded = <<>>

DiffInit ==
  /\ pc = "ready"
  /\ CellIdle
  /\ EntriesIdle
  /\ previous_directories \in PreviousMappings
  /\ new_directories \in NewMappings
  /\ description = <<>>

\* _fallback_directory_differences(previous_directories, new_directories)
CallDifferences ==
  /\ pc = "ready"
  /\ \E added_order \in Orders((DOMAIN new_directories) \ (DOMAIN previous_directories)),
        removed_order \in Orders((DOMAIN previous_directories) \ (DOMAIN new_directories)),
        new_order \in Orders(DOMAIN new_directories) :
       description' = fallback_directory_differences(
                         previous_directories, new_directories,
                         added_order, removed_order, new_order)
  /\ pc' = "done"
  /\ UNCHANGED <<cellVars, previous_directories, new_directories, pop_section_func,
                 lines, before, next_section, yielded>>

DiffNext == CallDifferences

DiffSpec == DiffInit /\ [][DiffNext]_vars

---------------------------------------------------------------------------
(* stem.directory: _directory_entries with the two section poppers.         *)

\* the longest list of lines tried
MaxLines == 4

FALLBACK_DIV == "/* ===== */"

\* the lines tried, with what the code asks of a line: whether it starts
\* with a space, whether its strip() is ',', and the matchers whose search
\* finds a match in it
LineTable ==
  <<[text |-> FALLBACK_DIV, startswith_space |-> FALSE, strip_is_comma |-> FALSE,
     found_by |-> {}],
    [text |-> ",", startswith_space |-> FALSE, strip_is_comma |-> TRUE,
     found_by |-> {}],
    [text |-> " ,", startswith_space |-> TRUE, strip_is_comma |-> TRUE,
     found_by |-> {}],
    [text |-> "\"159.89.87.126 orport=143 id=9D07DFA6472B80277798D73234348CEF02F2E7D5\"",
     startswith_space |-> FALSE, strip_is_comma |-> FALSE,
     found_by |-> {"AUTHORITY_NAME", "FALLBACK_ADDR"}],
    [text |-> "/* nickname=incircuitryrelay */",
     startswith_space |-> FALSE, strip_is_comma |-> FALSE,
     found_by |-> {"FALLBACK_NICKNAME"}],
    [text |-> "\"moria1 orport=9101 \"",
     startswith_space |-> FALSE, strip_is_comma |-> FALSE,
     found_by |-> {"AUTHORITY_NAME"}],
    [text |-> "  \"128.31.0.39:9131 9695 DFC3 5FFE B861 329B 9F1A B04C 4639 7020 CE31\",",
     startswith_space |-> TRUE, strip_is_comma |-> FALSE,
     found_by |-> {"AUTHORITY_ADDR"}]>>

LineTexts == {LineTable[i].text : i \in DOMAIN LineTable}

LineInfo(line) == LineTable[CHOOSE i \in DOMAIN LineTable : LineTable[i].text = line]

\* what a section popper gives: the section, and lines as it leaves it
Popped(section_lines, rest) == [section |-> section_lines, lines |-> rest]

RECURSIVE AuthorityLoop(_, _)
\* while lines and lines[0].startswith(' '): section_lines.append(lines.pop(0))
AuthorityLoop(section_lines, ls) ==
  IF ls # <<>> /\ LineInfo(ls[1]).startswith_space
  THEN AuthorityLoop(Append(section_lines, Head(ls)), Tail(ls))
  ELSE Popped(section_lines, ls)

Authority_pop_section(ls) ==
  IF ls # <<>> THEN AuthorityLoop(<<Head(ls)>>, Tail(ls)) ELSE Popped(<<>>, ls)

RECURSIVE FallbackLoop(_, _, _)
\* while lines and line != FALLBACK_DIV: ...; line = lines.pop(0)
FallbackLoop(section_lines, line, ls) ==
  IF ls # <<>> /\ line # FALLBACK_DIV
  THEN FallbackLoop(IF ~LineInfo(line).strip_is_comma
                    THEN Append(section_lines, line) ELSE section_lines,
                    Head(ls), Tail(ls))
  ELSE Popped(section_lines, ls)

Fallback_pop_section(ls) ==
  IF ls # <<>> THEN FallbackLoop(<<>>, Head(ls), Tail(ls)) ELSE Popped(<<>>, ls)

Poppers == {"Authority._pop_section", "Fallback._pop_section"}

pop_section(func, ls) ==
  IF func = "Authority._pop_section" THEN Authority_pop_section(ls)
  ELSE Fallback_pop_section(ls)

\* the regexes and required arguments the callers of _directory_entries pass
\* with each popper
Regexes(func) ==
  IF func = "Authority._pop_section"
  THEN {"AUTHORITY_NAME", "AUTHORITY_V3IDENT", "AUTHORITY_IPV6", "AUTHORITY_ADDR"}
  ELSE {"FALLBACK_ADDR", "FALLBACK_NICKNAME", "FALLBACK_EXTRAINFO", "FALLBACK_IPV6"}

Required(func) ==
  IF func = "Authority._pop_section" THEN {"AUTHORITY_NAME", "AUTHORITY_ADDR"}
  ELSE {"FALLBACK_ADDR"}

\* _match_with: each matcher found maps to the last line it was found in
\* (standing for that line's capture groups); raises when a required matcher
\* found nothing
match_with(section, regexes, required) ==
  LET hit(m) == {i \in 1..Len(section) : m \in LineInfo(section[i]).found_by}
      matched == {m \in regexes : hit(m) # {}}
      last(m) == CHOOSE i \in hit(m) : \A j \in hit(m) : j <= i
  IN [ok |-> required \subseteq matched,
      matches |-> [m \in matched |-> section[last(m)]]]

LineLists == UNION {[1..n -> LineTexts] : n \in 0..MaxLines}

EntriesInit ==
  /\ pc = "ready"
  /\ CellIdle
  /\ previous_directories = <<>> /\ new_directories = <<>> /\ description = <<>>
  /\ pop_section_func \in Poppers
  /\ lines \in LineLists
  /\ before = lines
  /\ next_section = <<>>
  /\ yielded = <<>>

\* next_section = pop_section_func(lines), then the while test and the yield:
\* the iterator stops, raises out of _match_with, or yields and is suspended
Advance ==
  LET popped == pop_section(pop_section_func, lines)
      m == match_with(popped.section, Regexes(pop_section_func),
                      Required(pop_section_func))
  IN /\ before' = lines
     /\ lines' = popped.lines
     /\ next_section' = popped.section
     /\ IF popped.section = <<>>
        THEN pc' = "stopped" /\ yielded' = yielded
        ELSE IF ~m.ok
             THEN pc' = "raised" /\ yielded' = yielded
             ELSE pc' = "suspended" /\ yielded' = Append(yielded, m.matches)
     /\ UNCHANGED <<cellVars, previous_directories, new_directories, description,
                    pop_section_func>>

\* the first next() on the iterator: from the head of the function to the
\* first yield
EntriesFirst == pc = "ready" /\ Advance

\* a later next(): from the yield round the loop to the next yield
EntriesResume == pc = "suspended" /\ Advance

EntriesNext == EntriesFirst \/ EntriesResume

EntriesSpec == EntriesInit /\ [][EntriesNext]_vars

---------------------------------------------------------------------------
(* The vocabulary of the properties: the command sets and field layout as   *)
(* the specification states them, written independently of the model.       *)

CircuitScopedNames ==
  {"CREATE", "CREATED", "RELAY", "DESTROY", "CREATE_FAST", "CREATED_FAST",
   "RELAY_EARLY", "CREATE2"}

InitiatingNames == {"CREATE", "CREATE_FAST", "CREATE2"}

FixedSizeNames ==
  {"PADDING", "CREATE", "CREATED", "RELAY", "DESTROY", "CREATE_FAST",
   "CREATED_FAST", "NETINFO", "RELAY_EARLY", "CREATE2", "CREATED2",
   "PADDING_NEGOTIATE"}

VariableSizeNames ==
  {"VERSIONS", "VPADDING", "CERTS", "AUTH_CHALLENGE", "AUTHENTICATE", "AUTHORIZE"}

NotCircuitScopedNames ==
  {"PADDING", "VERSIONS", "NETINFO", "CREATED2", "PADDING_NEGOTIATE", "VPADDING",
   "CERTS", "AUTH_CHALLENGE", "AUTHENTICATE", "AUTHORIZE"}

\* the width of the circuit id field, and the length of a fixed-size cell
IdWidth(lv) == IF lv <= 3 THEN 2 ELSE 4

FixedTotal(lv) == IF lv <= 3 THEN 512 ELSE 514

\* n in 0..65535 as 2 big-endian bytes
BigEndian2(n) == <<n \div 256, n % 256>>

\* the circuit id as the field holds it at link version lv
IdField(id, lv) ==
  IF lv <= 3 THEN BigEndian2(id.lo) ELSE BigEndian2(id.hi) \o BigEndian2(id.lo)

\* the id is an integer that the field of link version lv can hold
FitsIdField(id, lv) ==
  /\ ~id.none
  /\ id.hi >= 0
  /\ IF lv <= 3 THEN id.hi = 0 ELSE id.hi <= 65535

\* a _pack call has ended
PackDone == pc = "done" /\ method = "_pack"

PackReturned == PackDone /\ result.status = "returned"

\* the call raised the ValueError with message m
RaisedValueError(m) ==
  /\ result.status = "raised"
  /\ result.exc = "ValueError"
  /\ result.msg = m
  /\ result.cell = <<>>

\* the payload leaves room for the header in a fixed-size cell
WithinCapacity == IdWidth(link_version) + 1 + Len(payload) <= FixedTotal(link_version)

\* the circuit id argument is one the Circuit Cell Rule accepts for the
\* command: an explicit id that fits the field or, for an initiating
\* command, no id; for a command that is not circuit-scoped, an id that fits
AcceptableId ==
  \/ FitsIdField(circ_id, link_version)
  \/ circ_id.none /\ NAME(cls) \in InitiatingNames

---------------------------------------------------------------------------
(* C1: packing a circuit-scoped command with an explicit circuit id (zero   *)
(* included) succeeds, and the circuit id field of the output holds that    *)
(* id.                                                                      *)
C1_ExplicitIdUsed ==
  (/\ PackDone
   /\ NAME(cls) \in CircuitScopedNames
   /\ FitsIdField(circ_id, link_version)
   /\ WithinCapacity)
  => /\ result.status = "returned"
     /\ SubSeq(result.cell, 1, IdWidth(link_version)) = IdField(circ_id, link_version)

(* C2: packing a circuit-scoped command that is not an initiating kind with *)
(* no circuit id fails with the missing-circuit-id error and produces no    *)
(* bytes.                                                                   *)
C2_MissingIdRejected ==
  (/\ PackDone
   /\ NAME(cls) \in CircuitScopedNames \ InitiatingNames
   /\ circ_id.none)
  => RaisedValueError("%s cells require a circ_id")

(* C3: packing an initiating command with no circuit id succeeds, with the  *)
(* circuit id field 00 01 at link version <= 3 and 80 00 00 00 above.       *)
C3_AutoAssigned ==
  (/\ PackDone
   /\ NAME(cls) \in InitiatingNames
   /\ circ_id.none
   /\ WithinCapacity)
  => /\ result.status = "returned"
     /\ SubSeq(result.cell, 1, IdWidth(link_version))
          = IF link_version <= 3 THEN <<0, 1>> ELSE <<128, 0, 0, 0>>

(* C4: for every fixed-size command and every payload within capacity, the  *)
(* packed cell is 512 bytes long at link version <= 3 and 514 bytes long    *)
(* above.                                                                   *)
C4_FixedLength ==
  (/\ PackDone
   /\ NAME(cls) \in FixedSizeNames
   /\ AcceptableId
   /\ WithinCapacity)
  => /\ result.status = "returned"
     /\ Len(result.cell) = FixedTotal(link_version)

(* C5: packing a fixed-size command whose header plus payload exceeds the   *)
(* fixed total length fails with the payload-too-large error and returns    *)
(* no bytes.                                                                *)
C5_OversizeRejected ==
  (/\ PackDone
   /\ NAME(cls) \in FixedSizeNames
   /\ AcceptableId
   /\ ~WithinCapacity)
  => RaisedValueError("Payload of %s is too large (%i bytes), must be less than %i")

(* C6: in every successfully packed fixed-size cell the payload follows the *)
(* header (circuit id and command byte) verbatim, and every byte after the  *)
(* payload up to the fixed total length is zero.                            *)
C6_PayloadThenZeros ==
  (PackReturned /\ IS_FIXED_SIZE(cls))
  => LET header == IdWidth(link_version) + 1
         used == header + Len(payload)
         total == FixedTotal(link_version)
     IN /\ Len(result.cell) = total
        /\ used <= total
        /\ SubSeq(result.cell, header + 1, used) = payload
        /\ SubSeq(result.cell, used + 1, total) = [i \in 1..(total - used) |-> 0]

\* a PADDING cell was packed whose payload has nonzero bytes and leaves room
\* for padding
C6_Witness ==
  /\ PackReturned
  /\ cls = "PaddingCell"
  /\ link_version = 4
  /\ payload = <<2, 3>>
  /\ SubSeq(result.cell, 5, 9) = <<0, 2, 3, 0, 0>>

VariableFrame ==
  IdField(circ_id, link_version) \o <<VALUE(cls)>>
    \o BigEndian2(Len(payload)) \o payload

C9_NoIdEmitted ==
  (PackReturned /\ NAME(cls) \in NotCircuitScopedNames)
  => SubSeq(result.cell, 1, IdWidth(link_version))
       = [i \in 1..IdWidth(link_version) |-> 0]

\* VersionsCell.pack has ended
VersionsDone == pc = "done" /\ method = "pack"

\* each version as 2 big-endian bytes, in the order of the list
VersionBytes(vs) ==
  [i \in 1..(2 * Len(vs)) |->
     IF i % 2 = 1 THEN vs[(i + 1) \div 2] \div 256 ELSE vs[i \div 2] % 256]

\* the VERSIONS cell of the list: framed as link version 3
VersionsFrame(vs) == <<0, 0, 7>> \o BigEndian2(2 * Len(vs)) \o VersionBytes(vs)

AllTwoByte(vs) == \A k \in 1..Len(vs) : vs[k] >= 0 /\ vs[k] <= 65535

---------------------------------------------------------------------------
(* The registry of the specification: command name -> command value.        *)
CommandValue ==
  [PADDING |-> 0, CREATE |-> 1, CREATED |-> 2, RELAY |-> 3, DESTROY |-> 4,
   CREATE_FAST |-> 5, CREATED_FAST |-> 6, VERSIONS |-> 7, NETINFO |-> 8,
   RELAY_EARLY |-> 9, CREATE2 |-> 10, CREATED2 |-> 11, PADDING_NEGOTIATE |-> 12,
   VPADDING |-> 128, CERTS |-> 129, AUTH_CHALLENGE |-> 130, AUTHENTICATE |-> 131,
   AUTHORIZE |-> 132]

RegisteredNames == DOMAIN CommandValue

RegisteredValues == {CommandValue[n] : n \in RegisteredNames}

\* the payload is no longer than the framing of the command allows
WithinFraming ==
  IF NAME(cls) \in FixedSizeNames THEN Len(payload) <= 509 ELSE Len(payload) <= 65535

\* the unpacked cell is the one packed: its command, its payload (for a
\* fixed-size command, followed by the padding), and for a circuit-scoped
\* command the circuit id given
SameCell ==
  /\ unpacked.ok
  /\ unpacked.command = NAME(cls)
  /\ unpacked.consumed = Len(result.cell)
  /\ IF NAME(cls) \in FixedSizeNames
     THEN unpacked.payload = payload \o Zeros(509 - Len(payload))
     ELSE unpacked.payload = payload
  /\ unpacked.has_circ_id = (NAME(cls) \in CircuitScopedNames)
  /\ (NAME(cls) \in CircuitScopedNames /\ ~circ_id.none)
       => unpacked.circuit_id = circ_id

(* C11: round trip.  For every registered command, every link version in    *)
(* 2..5 and every payload the framing allows, packing the cell succeeds and *)
(* unpacking the packed bytes gives the cell back.                          *)
C11_RoundTrip ==
  (/\ pc \in {"done", "unpacked"}
   /\ method = "_pack"
   /\ NAME(cls) \in RegisteredNames
   /\ link_version \in 2..5
   /\ AcceptableId
   /\ WithinFraming)
  => /\ result.status = "returned"
     /\ pc = "unpacked" => SameCell

\* a lookup has ended
LookupDone == pc = "done" /\ method \in {"by_name", "by_value"}

(* C12: lookup by name and by value succeed exactly for the eighteen        *)
(* registered commands, returning the entry whose name / value is the key,  *)
(* and fail with the not-found error for every other key ('UNKNOWN', -1 and *)
(* the unassigned values in 0..255 among them).                             *)
C12_LookupExact ==
  /\ (LookupDone /\ method = "by_name")
       => IF name \in RegisteredNames
          THEN /\ result.status = "returned"
               /\ NAME(found) = name
               /\ VALUE(found) = CommandValue[name]
          ELSE RaisedValueError("'%s' isn't a valid cell type")
  /\ (LookupDone /\ method = "by_value")
       => IF value \in RegisteredValues
          THEN /\ result.status = "returned"
               /\ VALUE(found) = value
               /\ CommandValue[NAME(found)] = value
          ELSE RaisedValueError("'%s' isn't a valid cell value")

CellPackBodyDone ==
  /\ pc = "done"
  /\ \/ method = "Cell._pack"
     \/ method = "_pack" /\ ~IsCircuitCell(cls)
  /\ NAME(cls) \in FixedSizeNames

---------------------------------------------------------------------------
\* the lines of the description with the format fmt whose k-th argument is v
LinesFor(fmt, k, v) ==
  {i \in 1..Len(description) : description[i].fmt = fmt /\ description[i].args[k] = v}

\* the two mappings are equal: the same keys, with equal Fallbacks
SameMappings ==
  /\ DOMAIN previous_directories = DOMAIN new_directories
  /\ \A fp \in DOMAIN new_directories :
       ~Fallback_ne(previous_directories[fp], new_directories[fp])

(* C15: _fallback_directory_differences describes every difference: one     *)
(* Added block per fingerprint only in new_directories, one Removed line    *)
(* per fingerprint only in previous_directories, at least one Changed line  *)
(* for every fingerprint in both whose two Fallbacks are unequal (nickname  *)
(* and has_extrainfo count), and no line at all only when the mappings are  *)
(* equal.                                                                   *)
C15_EveryDifference ==
  (pc = "done" /\ method = "none" /\ pop_section_func = "none")
  => /\ \A fp \in (DOMAIN new_directories) \ (DOMAIN previous_directories) :
          Cardinality(LinesFor("* Added %s as a new fallback directory:", 1,
                               new_directories[fp].fingerprint)) = 1
     /\ \A fp \in (DOMAIN previous_directories) \ (DOMAIN new_directories) :
          Cardinality(LinesFor("* Removed %s as a fallback directory", 1, fp)) = 1
     /\ \A fp \in (DOMAIN previous_directories) \cap (DOMAIN new_directories) :
          Fallback_ne(previous_directories[fp], new_directories[fp])
          => LinesFor("* Changed the %s of %s from %s to %s", 2, fp) # {}
     /\ description = <<>> => SameMappings

---------------------------------------------------------------------------
\* the iterator has taken a step
Stepped == pop_section_func \in Poppers /\ pc \in {"suspended", "stopped", "raised"}

(* C16: with either section popper, each step of _directory_entries that    *)
(* gives a section removed at least one line, the lines never grow          *)
(* (so the iteration terminates), and the iterator stops only when lines    *)
(* is empty: no line is left unprocessed.                                   *)
C16_StopsWhenEmpty ==
  Stepped
  => /\ Len(lines) <= Len(before)
     /\ next_section # <<>> => Len(lines) < Len(before)
     /\ pc = "stopped" => lines = <<>>

\* the lines before the last call as far as the first divider, or all of
\* them when there is none
ThroughDivider ==
  LET dividers == {i \in 1..Len(before) : before[i] = FALLBACK_DIV}
      k == IF dividers = {} THEN Len(before)
           ELSE CHOOSE i \in dividers : \A j \in dividers : i <= j
  IN SubSeq(before, 1, k)

NeitherDividerNorComma(line) == line # FALLBACK_DIV /\ ~LineInfo(line).strip_is_comma

(* C17: Fallback._pop_section removes from the front of lines everything    *)
(* through the next divider (through the end when there is none) and        *)
(* returns, in order, every removed line that is neither the divider nor    *)
(* just a comma, the last line of an input without a final divider          *)
(* included.                                                                *)
C17_SectionThroughDivider ==
  (Stepped /\ pop_section_func = "Fallback._pop_section")
  => /\ before = ThroughDivider \o lines
     /\ next_section = SelectSeq(ThroughDivider, NeitherDividerNorComma)

====
